---- MODULE Spec2Model ----
(***************************************************************************)
(* A model of pyspfc.grid.Grid (src/pyspfc/grid.py): the orchestration of  *)
(* a multi-timestamp power-flow run.  The Grid object is a state machine   *)
(* whose state is its attributes and whose actions are its public methods. *)
(*                                                                         *)
(* Representation.                                                         *)
(*  - A Python attribute that may be None is a tuple of length 0 (None) or *)
(*    1 (the value).                                                       *)
(*  - A dict is a function; "key in d" is "key \in DOMAIN d".              *)
(*  - A number the code divides (true division "/") is an exact rational   *)
(*    <<numerator, denominator>> in lowest terms with denominator > 0.     *)
(*  - outcome records the last method call: its name, the exception it     *)
(*    raised ("" when it returned) and what it returned.                   *)
(*  - solver_calls records the arguments handed to the Jacobian builder    *)
(*    and the solver by the last do_powerflow, one entry per call.         *)
(***************************************************************************)
EXTENDS Integers, Sequences, FiniteSets, TLC

VARIABLES settings, grid_node_list, grid_line_list, timestamps,
          bus_admittance_matrix, gridnode_results, gridline_results,
          outcome, solver_calls

vars == <<settings, grid_node_list, grid_line_list, timestamps,
          bus_admittance_matrix, gridnode_results, gridline_results,
          outcome, solver_calls>>

(***************************************************************************)
(* Bounds of the model.                                                    *)
(***************************************************************************)
\* longest persistent node list drawn for the classifier
MaxNodes == 2
\* most nodes added programmatically after construction or import
MaxAdded == 1
\* largest voltage magnitude a solver result carries
MaxMag == 2

(***************************************************************************)
(* Python values.                                                          *)
(***************************************************************************)
None == <<>>

Some(v) == <<v>>

NoReturn == [none |-> TRUE]

EmptyDict == [k \in {} |-> 0]

DictSet(d, k, v) == [x \in (DOMAIN d) \cup {k} |-> IF x = k THEN v ELSE d[x]]

Abs(x) == IF x < 0 THEN -x ELSE x

RECURSIVE GCD(_, _)
GCD(a, b) == IF b = 0 THEN a ELSE GCD(b, a % b)

\* the rational n/d in lowest terms, d # 0
Rat(n, d) ==
    LET g == GCD(Abs(n), Abs(d))
        s == IF d < 0 THEN -1 ELSE 1
    IN  <<(s * n) \div g, (s * d) \div g>>

\* Python's a / b on exact values
TrueDiv(a, b) == Rat(a[1] * b[2], a[2] * b[1])

Num(n) == <<n, 1>>

RECURSIVE SumSeq(_)
SumSeq(s) == IF s = <<>> THEN 0 ELSE s[1] + SumSeq(Tail(s))

(***************************************************************************)
(* Input data: the values an import or a caller can supply.                *)
(***************************************************************************)
Names == {"A", "B", "C"}

TimestampKeys == {0, 1, 2}

\* a series_data dict holding one {'P': p, 'Q': q} entry per key
Series(keys, p, q) == [t \in keys |-> [P |-> p, Q |-> q]]

Generator(series) ==
    [p_max |-> 50, p_min |-> 0, q_max |-> 30, q_min |-> -30, series_data |-> series]

\* feeds 5 at every timestamp
GenPos == Generator(Series(TimestampKeys, 5, 2))

\* draws 5 at every timestamp: with GenPos the active generation sums to zero
GenNeg == Generator(Series(TimestampKeys, -5, 0))

\* feeds 5 at timestamp 0 only
GenVarying ==
    Generator([t \in TimestampKeys |-> [P |-> IF t = 0 THEN 5 ELSE 0, Q |-> 0]])

\* its series has no entry for timestamp 1
GenMissing == Generator(Series(TimestampKeys \ {1}, 5, 0))

Load(series) == [series_data |-> series]

LoadFull == Load(Series(TimestampKeys, 3, 1))

GeneratorLists == {<<>>, <<GenPos, GenNeg>>, <<GenVarying>>, <<GenMissing>>}

LoadLists == {<<>>, <<LoadFull>>}

\* GridNode(name, node_parameters): the attributes the orchestrator reads
PersistentNode(name, generators, loads) ==
    [name |-> name, generators |-> generators, loads |-> loads]

NodeValues ==
    {PersistentNode(n, g, l) : n \in {"A", "B"}, g \in GeneratorLists, l \in LoadLists}

SeqsUpTo(S, n) == UNION {[1..k -> S] : k \in 0..n}

SettingsValues ==
    {[s_nom |-> 100, v_nom |-> 10, is_import_pu |-> ip, is_resistance_pu |-> TRUE,
      slack |-> sl] :
        ip \in BOOLEAN, sl \in Names}

(***************************************************************************)
(* prepare_data_for_powerflow: the per-timestamp node classifier.          *)
(***************************************************************************)
\* series_data[timestamp] raises KeyError when the key is absent
SeriesRaises(elements, timestamp) ==
    \E i \in 1..Len(elements) : timestamp \notin DOMAIN elements[i].series_data

NodeRaises(gridnode, timestamp) ==
    \/ SeriesRaises(gridnode.generators, timestamp)
    \/ SeriesRaises(gridnode.loads, timestamp)

SumOfLimit(generators, limit) ==
    SumSeq([i \in 1..Len(generators) |-> generators[i][limit]])

SumOfSeries(elements, timestamp, quantity) ==
    SumSeq([i \in 1..Len(elements) |-> elements[i].series_data[timestamp][quantity]])

\* v_nom, s_nom = (1, 1) if settings.is_import_pu else (settings.v_nom, settings.s_nom)
Bases(st) ==
    IF st.is_import_pu THEN [v_nom |-> 1, s_nom |-> 1]
    ELSE [v_nom |-> st.v_nom, s_nom |-> st.s_nom]

PerUnit(sum, s_nom) == TrueDiv(Num(sum), Num(s_nom))

\* the branch of the if / elif / else that a node takes
NodeBranchPVFirst(gridnode, st, sum_of_active_power_gen) ==
    IF sum_of_active_power_gen # 0 THEN "PV"
    ELSE IF gridnode.name = st.slack THEN "slack"
    ELSE "PQ"

NodeBranch(gridnode, st, sum_of_active_power_gen) ==
    IF gridnode.name = st.slack THEN "slack"
    ELSE IF sum_of_active_power_gen # 0 THEN "PV"
    ELSE "PQ"

\* the GridNode built for one persistent node at one timestamp, and whether
\* it is appended to voltagenodes too
TransformNode(gridnode, st, timestamp) ==
    LET s_nom == Bases(st).s_nom
        v_nom == Bases(st).v_nom
        sum_of_p_max == SumOfLimit(gridnode.generators, "p_max")
        sum_of_p_min == SumOfLimit(gridnode.generators, "p_min")
        sum_of_q_max == SumOfLimit(gridnode.generators, "q_max")
        sum_of_q_min == SumOfLimit(gridnode.generators, "q_min")
        sum_of_active_power_gen == SumOfSeries(gridnode.generators, timestamp, "P")
        sum_of_active_power_load == SumOfSeries(gridnode.loads, timestamp, "P")
        sum_of_reactive_power_load == SumOfSeries(gridnode.loads, timestamp, "Q")
        p_load_pu == PerUnit(sum_of_active_power_load, s_nom)
        q_load_pu == PerUnit(sum_of_reactive_power_load, s_nom)
        branch == NodeBranch(gridnode, st, sum_of_active_power_gen)
    IN  CASE branch = "slack" ->
               [node |-> [name |-> gridnode.name, v_mag |-> Num(1), v_angle |-> Num(0),
                          p_load |-> p_load_pu, q_load |-> q_load_pu,
                          typenumber |-> "slack",
                          p_max |-> PerUnit(sum_of_p_max, s_nom),
                          p_min |-> PerUnit(sum_of_p_min, s_nom)],
                fixed |-> TRUE]
          [] branch = "PV" ->
               [node |-> [name |-> gridnode.name,
                          p_gen |-> PerUnit(sum_of_active_power_gen, s_nom),
                          v_mag |-> TrueDiv(Num(v_nom), Num(v_nom)),
                          p_load |-> p_load_pu, q_load |-> q_load_pu,
                          p_min |-> PerUnit(sum_of_p_min, s_nom),
                          p_max |-> PerUnit(sum_of_p_max, s_nom),
                          q_min |-> PerUnit(sum_of_q_min, s_nom),
                          q_max |-> PerUnit(sum_of_q_max, s_nom),
                          typenumber |-> "PV"],
                fixed |-> TRUE]
          [] OTHER ->
               [node |-> [name |-> gridnode.name, p_gen |-> Num(0), q_gen |-> Num(0),
                          p_load |-> p_load_pu, q_load |-> q_load_pu,
                          typenumber |-> "PQ"],
                fixed |-> FALSE]

\* gridnodes.append(gridnode)
AppendGridnodePrepending(gridnodes, gridnode) == <<gridnode>> \o gridnodes

AppendGridnode(gridnodes, gridnode) == Append(gridnodes, gridnode)

\* voltagenodes.append(gridnode), in the slack and PV branches only
AppendVoltagenode(voltagenodes, t) ==
    IF t.fixed THEN Append(voltagenodes, t.node) ELSE voltagenodes

\* the loop over the persistent node list, from index i on
RECURSIVE ClassifyFrom(_, _, _, _, _, _)
ClassifyFrom(i, node_list, st, timestamp, gridnodes, voltagenodes) ==
    IF i > Len(node_list)
    THEN [raised |-> "", gridnodes |-> gridnodes, voltagenodes |-> voltagenodes]
    ELSE IF NodeRaises(node_list[i], timestamp)
    THEN [raised |-> "KeyError", gridnodes |-> <<>>, voltagenodes |-> <<>>]
    ELSE LET t == TransformNode(node_list[i], st, timestamp)
         IN  ClassifyFrom(i + 1, node_list, st, timestamp,
                          AppendGridnode(gridnodes, t.node),
                          AppendVoltagenode(voltagenodes, t))

\* settings is None: settings.is_import_pu raises AttributeError
prepare_data_for_powerflow(node_list, st_opt, timestamp) ==
    IF st_opt = None
    THEN [raised |-> "AttributeError", gridnodes |-> <<>>, voltagenodes |-> <<>>]
    ELSE ClassifyFrom(1, node_list, st_opt[1], timestamp, <<>>, <<>>)

\* the loop rebinds its local name gridnode; the persistent list is not written
NodeListAfterPrepareConsumingLoads(node_list, prep) ==
    IF prep.raised # "" THEN node_list
    ELSE [i \in 1..Len(node_list) |->
             PersistentNode(node_list[i].name, node_list[i].generators, <<>>)]

NodeListAfterPrepare(node_list, prep) == node_list

(***************************************************************************)
(* create_bus_admittance_matrix: per-unit normalisation of the lines, then *)
(* the construction of the BusAdmittanceMatrix object.                     *)
(***************************************************************************)
Complex(re, im) == [re |-> re, im |-> im]

\* GridLine(node_i, node_j, line_parameters): the attributes the orchestrator reads
GridLine(node_i, node_j, admittance, transverse_admittance) ==
    [node_i |-> node_i, node_j |-> node_j, admittance |-> admittance,
     transverse_admittance |-> transverse_admittance]

LineAB == GridLine("A", "B", Complex(Num(5), Num(-2)), Complex(Num(0), Num(4)))

LineBC == GridLine("B", "C", Complex(Num(3), Num(-1)), Complex(Num(0), Num(0)))

\* y_nom = (settings.s_nom / settings.v_nom ** 2)
YNom(st) == TrueDiv(Num(st.s_nom), Num(st.v_nom * st.v_nom))

DividedBy(c, y_nom) == Complex(TrueDiv(c.re, y_nom), TrueDiv(c.im, y_nom))

NormalizedLines(line_list, st) ==
    IF ~st.is_resistance_pu
    THEN [i \in 1..Len(line_list) |->
             GridLine(line_list[i].node_i, line_list[i].node_j,
                      DividedBy(line_list[i].admittance, YNom(st)),
                      DividedBy(line_list[i].transverse_admittance, YNom(st)))]
    ELSE line_list

\* BusAdmittanceMatrix(nodes, lines, transformers): the matrix is a function of
\* the topology it was built from; row and column i belong to node i
BusAdmittanceMatrix(node_list, line_list) ==
    [matrix |-> [order |-> [i \in 1..Len(node_list) |-> node_list[i].name],
                 lines |-> line_list]]

(***************************************************************************)
(* do_powerflow: the loop over the timestamps.                             *)
(***************************************************************************)
\* what PowerFlow.do_powerflow() can do for one timestamp: raise, or return
\* a node-result record (name -> entry) and a line-result record
SolverFails == [failed |-> TRUE]

NodeEntries ==
    {[v_angle |-> 0]} \cup {[v_magnitude |-> v, v_angle |-> 0] : v \in 0..MaxMag}

LineRecords == {[current |-> 0]}

NameSet(node_list) == {node_list[i].name : i \in 1..Len(node_list)}

\* every node of a record carries the same entry
UniformOutcomes(names) ==
    {SolverFails} \cup
    {[failed |-> FALSE, node |-> [n \in names |-> e], line |-> l] :
        e \in NodeEntries, l \in LineRecords}

\* the matrix handed to JacobianMatrix and to PowerFlow
MatrixForSolve(bam_opt) == bam_opt[1].matrix

RECURSIVE PowerflowFrom(_, _, _, _, _, _, _, _, _)
PowerflowFrom(i, ts, sol, node_list, st_opt, bam_opt, node_results, line_results, calls) ==
    IF i > Len(ts)
    THEN [raised |-> "", node_list |-> node_list, gridnode_results |-> node_results,
          gridline_results |-> line_results, calls |-> calls]
    ELSE LET prep == prepare_data_for_powerflow(node_list, st_opt, ts[i])
             nodes2 == NodeListAfterPrepare(node_list, prep)
             abort(err, log) ==
                 [raised |-> err, node_list |-> nodes2, gridnode_results |-> node_results,
                  gridline_results |-> line_results, calls |-> log]
         IN  IF prep.raised # "" THEN abort(prep.raised, calls)
             ELSE IF bam_opt = None THEN abort("AttributeError", calls)
             ELSE LET call == [timestamp |-> ts[i],
                               jacobian_matrix |-> MatrixForSolve(bam_opt),
                               solver_matrix |-> MatrixForSolve(bam_opt),
                               gridnodes |-> prep.gridnodes,
                               voltagenodes |-> prep.voltagenodes,
                               v_nom |-> st_opt[1].v_nom, s_nom |-> st_opt[1].s_nom]
                      log == Append(calls, call)
                  IN  IF sol[ts[i]].failed THEN abort("SolverError", log)
                      ELSE PowerflowFrom(i + 1, ts, sol, nodes2, st_opt, bam_opt,
                                         DictSet(node_results, ts[i], sol[ts[i]].node),
                                         DictSet(line_results, ts[i], sol[ts[i]].line),
                                         log)

(***************************************************************************)
(* get_worstcase_results.                                                  *)
(***************************************************************************)
\* the key of the timestamp column (csvexport.TIMESTAMP)
TIMESTAMP == "timestamp"

\* min_voltage = 1e20: above every magnitude of the model
MinVoltageInit == MaxMag + 1

MaxVoltageInit == 0

DefaultTimestamp == 0

SetMin(S) == CHOOSE v \in S : \A w \in S : v <= w

SetMax(S) == CHOOSE v \in S : \A w \in S : v >= w

\* the magnitudes of the entries of one node-result record that are scanned
Exposed(timestamp_data) ==
    {timestamp_data[k].v_magnitude :
        k \in {n \in DOMAIN timestamp_data :
                 n # TIMESTAMP /\ "v_magnitude" \in DOMAIN timestamp_data[n]}}

\* the inner loop over one timestamp's entries: a strict improvement moves
\* the running extreme and its timestamp
ScanTimestamp(acc, timestamp, timestamp_data) ==
    LET vs == Exposed(timestamp_data)
        lower == vs # {} /\ SetMin(vs) < acc.min_voltage
        higher == vs # {} /\ SetMax(vs) > acc.max_voltage
    IN  [min_voltage |-> IF lower THEN SetMin(vs) ELSE acc.min_voltage,
         max_voltage |-> IF higher THEN SetMax(vs) ELSE acc.max_voltage,
         min_worstcase_timestamp |-> IF lower THEN timestamp ELSE acc.min_worstcase_timestamp,
         max_worstcase_timestamp |-> IF higher THEN timestamp ELSE acc.max_worstcase_timestamp]

ScanInit ==
    [min_voltage |-> MinVoltageInit, max_voltage |-> MaxVoltageInit,
     min_worstcase_timestamp |-> DefaultTimestamp,
     max_worstcase_timestamp |-> DefaultTimestamp]

\* the loop over self.timestamps; self.gridnode_results[timestamp] raises
\* KeyError for a timestamp without recorded results
RECURSIVE ScanFrom(_, _, _, _)
ScanFrom(i, ts, node_results, acc) ==
    IF i > Len(ts) THEN [raised |-> "", acc |-> acc]
    ELSE IF ts[i] \notin DOMAIN node_results THEN [raised |-> "KeyError", acc |-> acc]
    ELSE ScanFrom(i + 1, ts, node_results, ScanTimestamp(acc, ts[i], node_results[ts[i]]))

get_worstcase_results(ts_opt, node_results, line_results) ==
    IF ts_opt = None
    THEN [op |-> "get_worstcase_results", raised |-> "TypeError", ret |-> NoReturn]
    ELSE LET scan == ScanFrom(1, ts_opt[1], node_results, ScanInit)
             tmin == scan.acc.min_worstcase_timestamp
             tmax == scan.acc.max_worstcase_timestamp
         IN  IF \/ scan.raised # ""
                \/ {tmin, tmax} \cap DOMAIN node_results # {tmin, tmax}
                \/ {tmin, tmax} \cap DOMAIN line_results # {tmin, tmax}
             THEN [op |-> "get_worstcase_results", raised |-> "KeyError", ret |-> NoReturn]
             ELSE [op |-> "get_worstcase_results", raised |-> "",
                   ret |-> [gridnode |-> [min |-> node_results[tmin],
                                          max |-> node_results[tmax]],
                            gridline |-> [min |-> line_results[tmin],
                                          max |-> line_results[tmax]]],
                   min_worstcase_timestamp |-> tmin,
                   max_worstcase_timestamp |-> tmax]

(***************************************************************************)
(* The Grid object: construction and methods.                              *)
(***************************************************************************)
Range(f) == {f[i] : i \in DOMAIN f}

Called(op, raised) == [op |-> op, raised |-> raised, ret |-> NoReturn]

\* Grid.__init__
Init ==
    /\ settings = None
    /\ grid_node_list = <<>>
    /\ grid_line_list = <<>>
    /\ timestamps = None
    /\ bus_admittance_matrix = None
    /\ gridnode_results = EmptyDict
    /\ gridline_results = EmptyDict
    /\ outcome = Called("__init__", "")
    /\ solver_calls = <<>>

\* what CSVimport can deliver
NodeA == PersistentNode("A", <<GenVarying>>, <<LoadFull>>)

NodeB == PersistentNode("B", <<GenMissing>>, <<>>)

NodeC == PersistentNode("C", <<GenPos>>, <<>>)

RawSettings ==
    [s_nom |-> 200, v_nom |-> 10, is_import_pu |-> FALSE, is_resistance_pu |-> FALSE,
     slack |-> "A"]

PerUnitSettings ==
    [s_nom |-> 100, v_nom |-> 10, is_import_pu |-> TRUE, is_resistance_pu |-> TRUE,
     slack |-> "A"]

Dataset(nodes, lines, st, ts) ==
    [grid_nodes |-> nodes, grid_lines |-> lines, network_settings |-> st,
     time_stamp_keys |-> ts]

Datasets ==
    {Dataset(n, <<LineAB>>, st, <<0>>) :
        n \in {<<NodeA>>, <<NodeA, NodeB>>}, st \in {RawSettings, PerUnitSettings}}

\* the directories os.path.isdir finds
ExistingDirs == {"data"}

RootPaths == {"", "data", "nowhere"}

\* the attributes import_csv_data leaves, create_bus_admittance_matrix included;
\* nodes, lines, st, ts, bam are the attributes' values after the call
Imported(data, nodes, lines, st, ts, bam) ==
    /\ nodes = data.grid_nodes
    /\ lines = NormalizedLines(data.grid_lines, data.network_settings)
    /\ st = Some(data.network_settings)
    /\ ts = Some(data.time_stamp_keys)
    /\ bam = Some(BusAdmittanceMatrix(data.grid_nodes, lines))

\* import_csv_data
ImportCsvData ==
    \E root_path \in RootPaths, data \in Datasets :
        IF root_path # "" /\ root_path \notin ExistingDirs
        THEN /\ outcome' = Called("import_csv_data", "AssertionError")
             /\ UNCHANGED <<settings, grid_node_list, grid_line_list, timestamps,
                            bus_admittance_matrix, gridnode_results, gridline_results,
                            solver_calls>>
        ELSE /\ Imported(data, grid_node_list', grid_line_list', settings', timestamps',
                         bus_admittance_matrix')
             /\ outcome' = Called("import_csv_data", "")
             /\ UNCHANGED <<gridnode_results, gridline_results, solver_calls>>

\* the model stops re-dividing once a denominator has passed MaxDenominator
MaxDenominator == 2

Denominators(line) ==
    {line.admittance.re[2], line.admittance.im[2],
     line.transverse_admittance.re[2], line.transverse_admittance.im[2]}

\* create_bus_admittance_matrix
CreateBusAdmittanceMatrix ==
    IF settings = None
    THEN /\ outcome' = Called("create_bus_admittance_matrix", "AttributeError")
         /\ UNCHANGED <<settings, grid_node_list, grid_line_list, timestamps,
                        bus_admittance_matrix, gridnode_results, gridline_results,
                        solver_calls>>
    ELSE /\ \A i \in 1..Len(grid_line_list) :
                \A d \in Denominators(grid_line_list[i]) : d <= MaxDenominator
         /\ grid_line_list' = NormalizedLines(grid_line_list, settings[1])
         /\ bus_admittance_matrix' =
                Some(BusAdmittanceMatrix(grid_node_list, grid_line_list'))
         /\ outcome' = Called("create_bus_admittance_matrix", "")
         /\ UNCHANGED <<settings, grid_node_list, timestamps, gridnode_results,
                        gridline_results, solver_calls>>

\* add_grid_node, and create_grid_node which builds the node and adds it
AddGridNode ==
    \E grid_node \in {NodeC} :
        /\ Len(grid_node_list) < MaxNodes + MaxAdded
        /\ grid_node_list' = Append(grid_node_list, grid_node)
        /\ outcome' = Called("add_grid_node", "")
        /\ UNCHANGED <<settings, grid_line_list, timestamps, bus_admittance_matrix,
                       gridnode_results, gridline_results, solver_calls>>

\* add_grid_line, and create_grid_line which builds the line and adds it
AddGridLine ==
    \E grid_line \in {LineBC} :
        /\ Len(grid_line_list) < 1 + MaxAdded
        /\ grid_line_list' = Append(grid_line_list, grid_line)
        /\ outcome' = Called("add_grid_line", "")
        /\ UNCHANGED <<settings, grid_node_list, timestamps, bus_admittance_matrix,
                       gridnode_results, gridline_results, solver_calls>>

\* prepare_data_for_powerflow(timestamp), called on its own
PrepareDataForPowerflow ==
    \E timestamp \in TimestampKeys :
      \E prep \in {prepare_data_for_powerflow(grid_node_list, settings, timestamp)} :
            /\ grid_node_list' = NodeListAfterPrepare(grid_node_list, prep)
            /\ outcome' = [op |-> "prepare_data_for_powerflow", raised |-> prep.raised,
                           ret |-> [gridnodes |-> prep.gridnodes,
                                    voltagenodes |-> prep.voltagenodes],
                           timestamp |-> timestamp]
            /\ UNCHANGED <<settings, grid_line_list, timestamps, bus_admittance_matrix,
                           gridnode_results, gridline_results, solver_calls>>

\* do_powerflow; sol is what the solver does at each timestamp, drawn from
\* solver_outcomes
DoPowerflowWith(solver_outcomes) ==
    IF timestamps = None
    THEN /\ outcome' = Called("do_powerflow", "TypeError")
         /\ UNCHANGED <<settings, grid_node_list, grid_line_list, timestamps,
                        bus_admittance_matrix, gridnode_results, gridline_results,
                        solver_calls>>
    ELSE \E sol \in [Range(timestamps[1]) -> solver_outcomes] :
           \E run \in {PowerflowFrom(1, timestamps[1], sol, grid_node_list, settings,
                                     bus_admittance_matrix, gridnode_results,
                                     gridline_results, <<>>)} :
                 /\ grid_node_list' = run.node_list
                 /\ gridnode_results' = run.gridnode_results
                 /\ gridline_results' = run.gridline_results
                 /\ solver_calls' = run.calls
                 /\ outcome' = Called("do_powerflow", run.raised)
                 /\ UNCHANGED <<settings, grid_line_list, timestamps,
                                bus_admittance_matrix>>

\* get_worstcase_results
GetWorstcaseResults ==
    /\ outcome' = get_worstcase_results(timestamps, gridnode_results, gridline_results)
    /\ UNCHANGED <<settings, grid_node_list, grid_line_list, timestamps,
                   bus_admittance_matrix, gridnode_results, gridline_results,
                   solver_calls>>

(***************************************************************************)
(* Spec: the life of a Grid from construction: import, programmatic        *)
(* topology changes, matrix construction and solves that converge.         *)
(***************************************************************************)
ConvergedOutcomes(names) ==
    {[failed |-> FALSE, node |-> [n \in names |-> [v_magnitude |-> 1, v_angle |-> 0]],
      line |-> [current |-> 0]]}

DoPowerflow == DoPowerflowWith(ConvergedOutcomes(NameSet(grid_node_list)))

Next ==
    \/ ImportCsvData
    \/ CreateBusAdmittanceMatrix
    \/ AddGridNode
    \/ AddGridLine
    \/ DoPowerflow

Spec == Init /\ [][Next]_vars

(***************************************************************************)
(* SpecClassify: the classifier on every imported node list of up to       *)
(* MaxNodes nodes, at every timestamp.                                     *)
(***************************************************************************)
AfterImport(data) ==
    /\ Imported(data, grid_node_list, grid_line_list, settings, timestamps,
                bus_admittance_matrix)
    /\ gridnode_results = EmptyDict
    /\ gridline_results = EmptyDict
    /\ outcome = Called("import_csv_data", "")
    /\ solver_calls = <<>>

ClassifyDatasets ==
    {Dataset(n, <<>>, st, <<0, 1, 2>>) :
        n \in SeqsUpTo(NodeValues, MaxNodes), st \in SettingsValues}

InitClassify == \E data \in ClassifyDatasets : AfterImport(data)

NextClassify == PrepareDataForPowerflow

SpecClassify == InitClassify /\ [][NextClassify]_vars

(***************************************************************************)
(* SpecSolve: the solve loop after an import, with a solver that may fail  *)
(* at any timestamp, and the worst-case extraction on what it recorded.    *)
(***************************************************************************)
SolveDatasets ==
    {Dataset(n, <<LineAB>>, st, ts) :
        n \in SeqsUpTo({NodeA, NodeB}, MaxNodes) \ {<<>>},
        st \in {RawSettings, PerUnitSettings}, ts \in {<<0, 1>>, <<1, 0>>}}

InitSolve == \E data \in SolveDatasets : AfterImport(data)

DoPowerflowAny == DoPowerflowWith(UniformOutcomes(NameSet(grid_node_list)))

NextSolve ==
    \/ DoPowerflowAny
    \/ PrepareDataForPowerflow
    \/ GetWorstcaseResults

SpecSolve == InitSolve /\ [][NextSolve]_vars

(***************************************************************************)
(* SpecWorst: the worst-case extraction on the results of solves whose     *)
(* node records differ from node to node.                                  *)
(***************************************************************************)
NodeOutcomes(names) ==
    {SolverFails} \cup
    {[failed |-> FALSE, node |-> nr, line |-> l] :
        nr \in [names -> NodeEntries], l \in LineRecords}

WorstDatasets ==
    {Dataset(<<NodeA, NodeC>>, <<LineAB>>, PerUnitSettings, ts) :
        ts \in {<<>>, <<0>>, <<1>>, <<1, 0>>}}

InitWorst == \E data \in WorstDatasets : AfterImport(data)

DoPowerflowNodes == DoPowerflowWith(NodeOutcomes(NameSet(grid_node_list)))

NextWorst ==
    \/ DoPowerflowNodes
    \/ GetWorstcaseResults

SpecWorst == InitWorst /\ [][NextWorst]_vars

(***************************************************************************)
(* Properties.                                                             *)
(***************************************************************************)
Returned(op) == outcome.op = op /\ outcome.raised = ""

NamesOf(nodes) == [i \in 1..Len(nodes) |-> nodes[i].name]

SlackIndices(gridnodes) ==
    {i \in 1..Len(gridnodes) : gridnodes[i].typenumber = "slack"}

\* C1: per-unit normalisation is idempotent: a create_bus_admittance_matrix
\* call that follows a successful import_csv_data or
\* create_bus_admittance_matrix call (every line is normalised already) leaves
\* every line's series and transverse admittance as it was.
C1_NormalizationIdempotent ==
    [][(/\ outcome.op \in {"import_csv_data", "create_bus_admittance_matrix"}
        /\ outcome.raised = ""
        /\ outcome'.op = "create_bus_admittance_matrix")
       => grid_line_list' = grid_line_list]_vars

\* C2: a do_powerflow run in which the solver raised nothing does not abort:
\* it returns normally, and every timestamp of the sequence that can be
\* classified has been handed to the solver, whatever timestamp could not be
\* classified.
C2_FailuresIsolated ==
    (outcome.op = "do_powerflow" /\ outcome.raised # "SolverError")
    => /\ outcome.raised = ""
       /\ \A t \in Range(timestamps[1]) :
              prepare_data_for_powerflow(grid_node_list, settings, t).raised = ""
              => \E i \in 1..Len(solver_calls) : solver_calls[i].timestamp = t

\* C3: the node list prepare_data_for_powerflow returns for a non-empty
\* persistent node list holds exactly one slack node, and it bears the
\* configured slack name.
C3_ExactlyOneSlack ==
    (Returned("prepare_data_for_powerflow") /\ grid_node_list # <<>>)
    => /\ Cardinality(SlackIndices(outcome.ret.gridnodes)) = 1
       /\ \A i \in SlackIndices(outcome.ret.gridnodes) :
              outcome.ret.gridnodes[i].name = settings[1].slack

\* C4: the node list prepare_data_for_powerflow returns has the length of the
\* persistent node list, and its i-th node bears the name of the i-th
\* persistent node.
C4_SameLengthAndOrder ==
    Returned("prepare_data_for_powerflow")
    => /\ Len(outcome.ret.gridnodes) = Len(grid_node_list)
       /\ \A i \in 1..Len(grid_node_list) :
              outcome.ret.gridnodes[i].name = grid_node_list[i].name

\* a returned list of two differently named nodes, one of them a PQ node
\* without any generator or load
C4_Witness ==
    /\ Returned("prepare_data_for_powerflow")
    /\ Len(grid_node_list) >= 2
    /\ grid_node_list[1].name # grid_node_list[2].name
    /\ \E i \in 1..Len(grid_node_list) :
           /\ grid_node_list[i].generators = <<>>
           /\ grid_node_list[i].loads = <<>>
           /\ grid_node_list[i].name # settings[1].slack

IsFixedVoltage(gridnode) == gridnode.typenumber \in {"slack", "PV"}

\* C8: a node named as the slack is slack; any other node is PV when its active
\* generation at the timestamp sums to a non-zero value and PQ with zero
\* generation otherwise; voltagenodes is the slack and PV nodes of gridnodes,
\* in their order.
C8_ClassificationPrecedence ==
    Returned("prepare_data_for_powerflow")
    => /\ Len(outcome.ret.gridnodes) = Len(grid_node_list)
       /\ \A i \in 1..Len(grid_node_list) :
              LET persistent == grid_node_list[i]
                  classified == outcome.ret.gridnodes[i]
                  sum == SumOfSeries(persistent.generators, outcome.timestamp, "P")
              IN  IF persistent.name = settings[1].slack
                  THEN classified.typenumber = "slack"
                  ELSE IF sum # 0
                  THEN classified.typenumber = "PV"
                  ELSE /\ classified.typenumber = "PQ"
                       /\ classified.p_gen = Num(0)
                       /\ classified.q_gen = Num(0)
       /\ outcome.ret.voltagenodes = SelectSeq(outcome.ret.gridnodes, IsFixedVoltage)

\* a slack-named node that generates (slack wins over PV) beside a node whose
\* generators cancel (PQ although it has generators)
C8_Witness ==
    /\ Returned("prepare_data_for_powerflow")
    /\ \E i, j \in 1..Len(grid_node_list) :
           /\ grid_node_list[i].name = settings[1].slack
           /\ SumOfSeries(grid_node_list[i].generators, outcome.timestamp, "P") # 0
           /\ grid_node_list[j].name # settings[1].slack
           /\ grid_node_list[j].generators # <<>>
           /\ outcome.ret.gridnodes[j].typenumber = "PQ"

\* C9: every solve uses a matrix built for the node list it solves: the matrix
\* order is the names of the classified nodes handed over with it.
C9_MatrixMatchesTopology ==
    \A i \in 1..Len(solver_calls) :
        /\ solver_calls[i].solver_matrix.order = NamesOf(solver_calls[i].gridnodes)
        /\ solver_calls[i].jacobian_matrix.order = NamesOf(solver_calls[i].gridnodes)

\* C10: a do_powerflow or prepare_data_for_powerflow call leaves the node list,
\* the line list, the settings, the timestamps and the admittance matrix as
\* they were, and every solve of the run was handed that one matrix.
C10_SolveLeavesPersistentState ==
    [][outcome'.op \in {"do_powerflow", "prepare_data_for_powerflow"}
       => /\ grid_node_list' = grid_node_list
          /\ grid_line_list' = grid_line_list
          /\ settings' = settings
          /\ timestamps' = timestamps
          /\ bus_admittance_matrix' = bus_admittance_matrix
          /\ outcome'.op = "do_powerflow"
             => \A i \in 1..Len(solver_calls') :
                    /\ solver_calls'[i].jacobian_matrix = bus_admittance_matrix[1].matrix
                    /\ solver_calls'[i].solver_matrix = bus_admittance_matrix[1].matrix]_vars

\* a run that solved two timestamps on a node list holding a node with a load
C10_Witness ==
    /\ Returned("do_powerflow")
    /\ Len(solver_calls) = 2
    /\ \E i \in 1..Len(grid_node_list) : grid_node_list[i].loads # <<>>

\* the magnitudes recorded at the timestamps of the sequence
RecordedMagnitudes ==
    UNION {Exposed(gridnode_results[t]) :
              t \in Range(timestamps[1]) \cap DOMAIN gridnode_results}

\* the first timestamp of the sequence whose record holds magnitude v
FirstHolding(v) ==
    LET ts == timestamps[1]
        i == CHOOSE k \in 1..Len(ts) :
                 /\ v \in Exposed(gridnode_results[ts[k]])
                 /\ \A j \in 1..(k - 1) : v \notin Exposed(gridnode_results[ts[j]])
    IN  ts[i]

\* C5: with results recorded for every timestamp and a magnitude among them,
\* get_worstcase_results returns under 'min' the node and line records of the
\* first timestamp holding the smallest magnitude and under 'max' those of
\* the first timestamp holding the largest.
C5_WorstcaseSelectsExtremes ==
    (/\ outcome.op = "get_worstcase_results"
     /\ Range(timestamps[1]) \subseteq DOMAIN gridnode_results
     /\ RecordedMagnitudes # {})
    => /\ outcome.raised = ""
       /\ outcome.ret.gridnode.min = gridnode_results[FirstHolding(SetMin(RecordedMagnitudes))]
       /\ outcome.ret.gridline.min = gridline_results[FirstHolding(SetMin(RecordedMagnitudes))]
       /\ outcome.ret.gridnode.max = gridnode_results[FirstHolding(SetMax(RecordedMagnitudes))]
       /\ outcome.ret.gridline.max = gridline_results[FirstHolding(SetMax(RecordedMagnitudes))]

\* C6: when no recorded entry exposes a voltage magnitude,
\* get_worstcase_results raises instead of returning the records stored under
\* the default timestamp key.
C6_NoMagnitudeFailsExplicitly ==
    (outcome.op = "get_worstcase_results" /\ RecordedMagnitudes = {})
    => outcome.raised # ""

\* every solve of the last do_powerflow run has its results recorded
LastRunRecorded ==
    \A i \in 1..Len(solver_calls) : solver_calls[i].timestamp \in DOMAIN gridnode_results

\* C7: after a solve loop that recorded the results of every solve it made,
\* get_worstcase_results reads the results store at recorded keys only: it
\* raises no KeyError, and the timestamps it selects are keys of the store.
C7_WorstcaseReadsRecordedOnly ==
    (/\ outcome.op = "get_worstcase_results"
     /\ gridnode_results # EmptyDict
     /\ LastRunRecorded)
    => /\ outcome.raised # "KeyError"
       /\ outcome.raised = ""
          => {outcome.min_worstcase_timestamp, outcome.max_worstcase_timestamp}
                 \subseteq DOMAIN gridnode_results

====
